---- MODULE Spec2Model ----
(***************************************************************************)
(* Model of the payroll-field resolver of flytax-api (src/main.py):        *)
(* str_to_float, amount_regex, find_amount_after_label and postprocess.    *)
(*                                                                         *)
(* Text is a sequence of one-character atoms.  Two characters outside      *)
(* ASCII are written as named atoms: NBSP (U+00A0) and EACUTE (U+00E9).    *)
(* A Python float is modelled as an exact decimal, kept in a canonical     *)
(* form (sign, integer digits, fraction digits); the amounts the model     *)
(* adds have at most three decimals.                                       *)
(***************************************************************************)
EXTENDS Integers, Sequences, FiniteSets, TLC

VARIABLES
    nin,      \* str_to_float harness: the argument
    intended, \* str_to_float harness: the value the argument was written to mean
    nout,     \* str_to_float harness: the returned value, or Pending
    stext,    \* find_amount_after_label harness: the text
    slabel,   \* find_amount_after_label harness: the literal label
    sout,     \* find_amount_after_label harness: the returned value, or Pending
    parsed,   \* postprocess: the argument
    result,   \* postprocess: the record being built
    pc        \* postprocess: position in the function body

vars == <<nin, intended, nout, stext, slabel, sout, parsed, result, pc>>

-----------------------------------------------------------------------------
(* Characters *)

NBSP == "NBSP"
EACUTE == "e-acute"
EACUTE_UP == "E-ACUTE"
NL == "\n"
CR == "\r"
BSL == "\\"
DQ == "\""

Digits == {"0", "1", "2", "3", "4", "5", "6", "7", "8", "9"}

DigitVal(c) ==
    CASE c = "0" -> 0 [] c = "1" -> 1 [] c = "2" -> 2 [] c = "3" -> 3
      [] c = "4" -> 4 [] c = "5" -> 5 [] c = "6" -> 6 [] c = "7" -> 7
      [] c = "8" -> 8 [] c = "9" -> 9

DigitChar(d) ==
    CASE d = 0 -> "0" [] d = 1 -> "1" [] d = 2 -> "2" [] d = 3 -> "3"
      [] d = 4 -> "4" [] d = 5 -> "5" [] d = 6 -> "6" [] d = 7 -> "7"
      [] d = 8 -> "8" [] d = 9 -> "9"

\* str.isspace() / regex \s on the characters of the model
Whitespace == {" ", NBSP, NL, CR, "\t"}

UpperLetters ==
    <<"A", "B", "C", "D", "E", "F", "G", "H", "I", "J", "K", "L", "M",
      "N", "O", "P", "Q", "R", "S", "T", "U", "V", "W", "X", "Y", "Z", EACUTE_UP>>

LowerLetters ==
    <<"a", "b", "c", "d", "e", "f", "g", "h", "i", "j", "k", "l", "m",
      "n", "o", "p", "q", "r", "s", "t", "u", "v", "w", "x", "y", "z", EACUTE>>

UpperSet == {UpperLetters[i] : i \in 1..Len(UpperLetters)}
LowerSet == {LowerLetters[i] : i \in 1..Len(LowerLetters)}

LowerMap ==
    [c \in UpperSet |-> LowerLetters[CHOOSE i \in 1..Len(UpperLetters) : UpperLetters[i] = c]]

UpperMap ==
    [c \in LowerSet |-> UpperLetters[CHOOSE i \in 1..Len(LowerLetters) : LowerLetters[i] = c]]

\* str.lower() / str.upper() on one character
LowerChar(c) == IF c \in UpperSet THEN LowerMap[c] ELSE c

UpperChar(c) == IF c \in LowerSet THEN UpperMap[c] ELSE c

Lower(s) == [i \in 1..Len(s) |-> LowerChar(s[i])]
Upper(s) == [i \in 1..Len(s) |-> UpperChar(s[i])]

-----------------------------------------------------------------------------
(* String helpers *)

RECURSIVE Concat(_)
Concat(ss) == IF ss = <<>> THEN <<>> ELSE Head(ss) \o Concat(Tail(ss))

\* s.replace(a, b) for a single character a and a replacement string b
Replace(s, a, b) == Concat([i \in 1..Len(s) |-> IF s[i] = a THEN b ELSE <<s[i]>>])

\* s.strip()
Strip(s) ==
    LET keep == {i \in 1..Len(s) : s[i] \notin Whitespace} IN
    IF keep = {} THEN <<>>
    ELSE LET lo == CHOOSE i \in keep : \A j \in keep : i <= j
             hi == CHOOSE i \in keep : \A j \in keep : j <= i
         IN  SubSeq(s, lo, hi)

\* needle in haystack (substring test)
Contains(hay, needle) ==
    \E i \in 0..(Len(hay) - Len(needle)) :
        \A j \in 1..Len(needle) : hay[i + j] = needle[j]

-----------------------------------------------------------------------------
(* Python values *)

PyNone == [t |-> "none"]
PyStr(s) == [t |-> "str", s |-> s]
PyInt(n) == [t |-> "int", n |-> n]
PyFloatV(x) == [t |-> "float", x |-> x]
PyDict(items) == [t |-> "dict", items |-> items]

\* Floats: a finite decimal (sign, integer digits without leading zero,
\* fraction digits without trailing zero), or nan, or a signed infinity.
RECURSIVE Pow10(_)
Pow10(n) == IF n = 0 THEN 1 ELSE 10 * Pow10(n - 1)

RECURSIVE DropLeadingZeros(_)
DropLeadingZeros(s) ==
    IF s # <<>> /\ Head(s) = "0" THEN DropLeadingZeros(Tail(s)) ELSE s

RECURSIVE DropTrailingZeros(_)
DropTrailingZeros(s) ==
    IF s # <<>> /\ s[Len(s)] = "0" THEN DropTrailingZeros(SubSeq(s, 1, Len(s) - 1)) ELSE s

Num(neg, ip, fp) ==
    LET i == DropLeadingZeros(ip)
        f == DropTrailingZeros(fp)
    IN  [k |-> "fin", neg |-> neg /\ (i # <<>> \/ f # <<>>), ip |-> i, fp |-> f]

NaN == [k |-> "nan", neg |-> FALSE, ip |-> <<>>, fp |-> <<>>]
Inf(neg) == [k |-> "inf", neg |-> neg, ip |-> <<>>, fp |-> <<>>]
Zero == Num(FALSE, <<>>, <<>>)

IsZero(x) == x.k = "fin" /\ x.ip = <<>> /\ x.fp = <<>>

RECURSIVE DigitsToInt(_, _)
DigitsToInt(s, acc) ==
    IF s = <<>> THEN acc ELSE DigitsToInt(Tail(s), 10 * acc + DigitVal(Head(s)))

RECURSIVE IntToDigits(_)
IntToDigits(n) ==
    IF n = 0 THEN <<>> ELSE Append(IntToDigits(n \div 10), DigitChar(n % 10))

Zeros(n) == IF n <= 0 THEN <<>> ELSE [i \in 1..n |-> "0"]

\* the finite x times 10^e as an integer (e at least the number of decimals of x)
Scaled(x, e) ==
    LET a == DigitsToInt(x.ip \o x.fp \o Zeros(e - Len(x.fp)), 0) IN
    IF x.neg THEN -a ELSE a

\* the float m * 10^(-e)
Unscaled(m, e) ==
    LET a == IF m < 0 THEN -m ELSE m
        ds == IntToDigits(a)
        padded == Zeros(e - Len(ds)) \o ds
    IN  Num(m < 0, SubSeq(padded, 1, Len(padded) - e),
            SubSeq(padded, Len(padded) - e + 1, Len(padded)))

\* a + b
Add(a, b) ==
    IF a.k = "nan" \/ b.k = "nan" THEN NaN
    ELSE IF a.k = "inf" THEN (IF b.k = "inf" /\ b.neg # a.neg THEN NaN ELSE a)
    ELSE IF b.k = "inf" THEN b
    ELSE LET e == IF Len(a.fp) > Len(b.fp) THEN Len(a.fp) ELSE Len(b.fp)
         IN  Unscaled(Scaled(a, e) + Scaled(b, e), e)

\* x > 0
Positive(x) == x.k # "nan" /\ ~x.neg /\ ~IsZero(x)

\* bool(x) for a float: false only for zero
Truthy(x) == ~IsZero(x)

\* round(x, 2), to the nearest hundredth (ties to even; none arises in the model)
Round2(x) ==
    IF x.k # "fin" \/ Len(x.fp) <= 2 THEN x
    ELSE LET p == Pow10(Len(x.fp) - 2)
             m == Scaled(x, Len(x.fp))
             a == IF m < 0 THEN -m ELSE m
             q == a \div p
             r == a % p
             up == IF 2 * r > p THEN 1
                   ELSE IF 2 * r = p /\ q % 2 = 1 THEN 1 ELSE 0
             v == q + up
         IN  Unscaled(IF m < 0 THEN -v ELSE v, 2)

-----------------------------------------------------------------------------
(* float(str) *)

\* a digit part of a float literal: digits, single underscores between them
IsDigitPart(s) ==
    /\ Len(s) > 0
    /\ \A i \in 1..Len(s) : s[i] \in Digits \/ s[i] = "_"
    /\ s[1] # "_" /\ s[Len(s)] # "_"
    /\ \A i \in 1..(Len(s) - 1) : ~(s[i] = "_" /\ s[i + 1] = "_")

OnlyDigits(s) == SelectSeq(s, LAMBDA c : c \in Digits)

Unparseable == [t |-> "error"]

\* an unsigned decimal literal without exponent: "12", "12.", ".5", "1.25"
ParseDecimal(s) ==
    LET dots == {i \in 1..Len(s) : s[i] = "."} IN
    IF Cardinality(dots) > 1 THEN Unparseable
    ELSE LET d == IF dots = {} THEN Len(s) + 1 ELSE CHOOSE i \in dots : TRUE
             ip == SubSeq(s, 1, d - 1)
             fp == SubSeq(s, d + 1, Len(s))
         IN  IF /\ \/ ip = <<>> \/ IsDigitPart(ip)
                /\ \/ fp = <<>> \/ IsDigitPart(fp)
                /\ ~(ip = <<>> /\ fp = <<>>)
             THEN PyFloatV(Num(FALSE, OnlyDigits(ip), OnlyDigits(fp)))
             ELSE Unparseable

\* x * 10^n for a finite x and an integer n: the decimal point moved
ShiftPoint(x, n) ==
    IF n >= 0
    THEN LET f == x.fp \o Zeros(n - Len(x.fp)) IN
         Num(x.neg, x.ip \o SubSeq(f, 1, n), SubSeq(f, n + 1, Len(f)))
    ELSE LET i == Zeros(-n - Len(x.ip)) \o x.ip IN
         Num(x.neg, SubSeq(i, 1, Len(i) + n), SubSeq(i, Len(i) + n + 1, Len(i)) \o x.fp)

\* an unsigned float literal: decimal with an optional exponent
ParseUnsigned(s) ==
    LET es == {i \in 1..Len(s) : s[i] \in {"e", "E"}} IN
    IF es = {} THEN ParseDecimal(s)
    ELSE IF Cardinality(es) > 1 THEN Unparseable
    ELSE LET p == CHOOSE i \in es : TRUE
             mant == ParseDecimal(SubSeq(s, 1, p - 1))
             rest == SubSeq(s, p + 1, Len(s))
             neg == rest # <<>> /\ Head(rest) = "-"
             xs == IF rest # <<>> /\ Head(rest) \in {"+", "-"} THEN Tail(rest) ELSE rest
         IN  IF mant = Unparseable \/ ~IsDigitPart(xs) THEN Unparseable
             ELSE LET x == DigitsToInt(OnlyDigits(xs), 0) IN
                  PyFloatV(ShiftPoint(mant.x, IF neg THEN -x ELSE x))

\* float(s) for a string s: a float value, or Unparseable (ValueError)
FloatOfStr(s) ==
    LET t == Strip(s)
        neg == t # <<>> /\ Head(t) = "-"
        u == IF t # <<>> /\ Head(t) \in {"+", "-"} THEN Tail(t) ELSE t
        w == Lower(u)
    IN  IF w = <<"n", "a", "n">> THEN PyFloatV(NaN)
        ELSE IF w = <<"i", "n", "f">> \/ w = <<"i", "n", "f", "i", "n", "i", "t", "y">>
             THEN PyFloatV(Inf(neg))
        ELSE LET v == ParseUnsigned(u) IN
             IF v = Unparseable THEN Unparseable
             ELSE PyFloatV(Num(neg, v.x.ip, v.x.fp))

-----------------------------------------------------------------------------
(* str_to_float *)

\* re.sub(r"[^\d\.]", "", s)
StripNonNumeric(s) == SelectSeq(s, LAMBDA c : c \in Digits \/ c = ".")

\* the normaliser on a string: its thousands separators are only space and NBSP
NormaliseText(s) ==
    Replace(Replace(Replace(Strip(s), NBSP, <<" ">>), " ", <<>>), ",", <<".">>)

\* str_to_float(v): a float, PyNone (no value), or Raises for an argument
\* that has no strip() method
Raises == [t |-> "raise"]

str_to_float(v) ==
    IF v.t = "none" THEN PyNone
    ELSE IF v.t # "str" THEN Raises
    ELSE LET f == FloatOfStr(StripNonNumeric(NormaliseText(v.s)))
         IN  IF f = Unparseable THEN PyNone ELSE f

-----------------------------------------------------------------------------
(* Regular expressions: the fragment the patterns of main.py use.  A pattern *)
(* is a sequence of quantified character classes, matched by backtracking    *)
(* in priority order (greedy quantifiers), as re.search does, under          *)
(* re.IGNORECASE.                                                            *)

\* a literal is kept in lower case: under IGNORECASE it matches both cases
Lit(c) == [kind |-> "lit", chars |-> {LowerChar(c)}, min |-> 1, max |-> 1]
AnyChar == [kind |-> "any", chars |-> {}, min |-> 1, max |-> 1]
InSet(cs) == [kind |-> "set", chars |-> cs, min |-> 1, max |-> 1]
NotInSet(cs) == [kind |-> "nset", chars |-> cs, min |-> 1, max |-> 1]
SpaceClass == [kind |-> "space", chars |-> {}, min |-> 1, max |-> 1]
\* el?  el*  el+  el{lo,hi}; a max below zero stands for "no upper limit"
Opt(el) == [el EXCEPT !.min = 0, !.max = 1]
Star(el) == [el EXCEPT !.min = 0, !.max = -1]
Plus(el) == [el EXCEPT !.min = 1, !.max = -1]
Between(el, lo, hi) == [el EXCEPT !.min = lo, !.max = hi]

Lits(s) == [i \in 1..Len(s) |-> Lit(s[i])]

ClassMatch(el, c) ==
    CASE el.kind = "lit" -> LowerChar(c) \in el.chars
      [] el.kind = "any" -> c # NL
      [] el.kind = "set" -> c \in el.chars
      [] el.kind = "nset" -> c \notin el.chars
      [] el.kind = "space" -> c \in Whitespace

\* how many characters from pos on match el, up to its max
RECURSIVE RunLen(_, _, _, _)
RunLen(el, text, pos, n) ==
    IF /\ pos + n <= Len(text)
       /\ (el.max < 0 \/ n < el.max)
       /\ ClassMatch(el, text[pos + n])
    THEN RunLen(el, text, pos, n + 1)
    ELSE n

IsDigitAt(text, p) == p >= 1 /\ p <= Len(text) /\ text[p] \in Digits

GroupSeps == {" ", NBSP, ".", ","}
DecimalSeps == {".", ","}

\* (?:[  \.,]\d{3})* from position p: the position after the last group
RECURSIVE AfterGroups(_, _)
AfterGroups(text, p) ==
    IF /\ p <= Len(text) /\ text[p] \in GroupSeps
       /\ IsDigitAt(text, p + 1) /\ IsDigitAt(text, p + 2) /\ IsDigitAt(text, p + 3)
    THEN AfterGroups(text, p + 4)
    ELSE p

\* (?:[.,]\d{2})? from position p
AfterDecimals(text, p) ==
    IF /\ p <= Len(text) /\ text[p] \in DecimalSeps
       /\ IsDigitAt(text, p + 1) /\ IsDigitAt(text, p + 2)
    THEN p + 3
    ELSE p

LeadMax == 3

\* \d{1,3}: the number of leading digits taken (greedy), 0 when there is none
LeadDigits(text, pos) == RunLen(Between(InSet(Digits), 1, LeadMax), text, pos, 0)

\* amount_regex anchored at pos, as the last part of a pattern: every part is
\* greedy and nothing follows it, so the first alternative tried succeeds.
\* <<first, last>> of the matched quantity, or <<>>.
amount_regex(text, pos) ==
    LET n == LeadDigits(text, pos) IN
    IF n = 0 THEN <<>>
    ELSE <<pos, AfterDecimals(text, AfterGroups(text, pos + n)) - 1>>

GapMax == 50

\* the gap class without the hyphen: [^0-9\n\r]
GapClassNoHyphen == NotInSet(Digits \cup {NL, CR})

\* [^0-9\n\r\-]
GapClass == NotInSet(Digits \cup {NL, CR, "-"})

\* {pat}[^0-9\n\r\-]{0,50}(amount)
WithAmount(pat) == pat \o <<Between(GapClass, 0, GapMax)>>

RECURSIVE MatchFrom(_, _, _, _)
RECURSIVE TryCounts(_, _, _, _, _)
\* elements k.. of pat, then the amount, from pos: the quantity's span or <<>>
MatchFrom(pat, k, text, pos) ==
    IF k > Len(pat) THEN amount_regex(text, pos)
    ELSE TryCounts(pat, k, text, pos, RunLen(pat[k], text, pos, 0))

TryCounts(pat, k, text, pos, n) ==
    IF n < pat[k].min THEN <<>>
    ELSE LET r == MatchFrom(pat, k + 1, text, pos + n) IN
         IF r # <<>> THEN r ELSE TryCounts(pat, k, text, pos, n - 1)

\* regex.search(text): the match at the leftmost start that has one
SearchAll(pat, text) ==
    LET starts == {i \in 1..(Len(text) + 1) : MatchFrom(pat, 1, text, i) # <<>>} IN
    IF starts = {} THEN <<>>
    ELSE MatchFrom(pat, 1, text, CHOOSE i \in starts : \A j \in starts : i <= j)

Search(pat, text) == SearchAll(WithAmount(pat), text)

\* bool(v)
PyTruthy(v) ==
    CASE v.t = "none" -> FALSE
      [] v.t = "str" -> v.s # <<>>
      [] v.t = "int" -> v.n # 0
      [] v.t = "float" -> Truthy(v.x)
      [] v.t = "dict" -> v.items # <<>>
      [] OTHER -> TRUE

\* find_amount_after_label(text, label_patterns): a float, PyNone, or Raises
\* when text is a non-empty value that is not a string (re raises TypeError)
RECURSIVE find_amount_after_label(_, _)
find_amount_after_label(text, label_patterns) ==
    IF ~PyTruthy(text) THEN PyNone
    ELSE IF label_patterns = <<>> THEN PyNone
    ELSE IF text.t # "str" THEN Raises
    ELSE LET m == Search(Head(label_patterns), text.s) IN
         IF m # <<>> THEN str_to_float(PyStr(SubSeq(text.s, m[1], m[2])))
         ELSE find_amount_after_label(text, Tail(label_patterns))

-----------------------------------------------------------------------------
(* Harness for str_to_float: locale-formatted numbers, built from their    *)
(* parts so that the value each was written to mean is known.              *)

Pending == [t |-> "pending"]

MaxGroups == 2

LeadSet == {<<"1">>, <<"4", "2">>, <<"9", "9", "9">>}
GroupSet == {<<"2", "3", "4">>, <<"5", "6", "7">>}
FracSet == {<<"5", "6">>, <<"8", "9">>}
ThousandSeps == {" ", NBSP, "."}

GroupSeqs == UNION {[1..n -> ThousandSeps \X GroupSet] : n \in 0..MaxGroups}
DecimalParts == {<<>>} \cup {<<d>> \o f : d \in DecimalSeps, f \in FracSet}

FormatNumber(lead, groups, dec) ==
    lead \o Concat([i \in 1..Len(groups) |-> <<groups[i][1]>> \o groups[i][2]]) \o dec

IntendedValue(lead, groups, dec) ==
    LET whole == lead \o Concat([i \in 1..Len(groups) |-> groups[i][2]]) IN
    PyFloatV(Num(FALSE, whole, IF dec = <<>> THEN <<>> ELSE Tail(dec)))

IdleScan == stext = <<>> /\ slabel = <<>> /\ sout = Pending
IdlePost == parsed = PyNone /\ result = PyNone /\ pc = "idle"
IdleNorm == nin = PyNone /\ intended = PyNone /\ nout = PyNone

InitNorm ==
    /\ \/ \E lead \in LeadSet, groups \in GroupSeqs, dec \in DecimalParts :
            /\ nin = PyStr(FormatNumber(lead, groups, dec))
            /\ intended = IntendedValue(lead, groups, dec)
       \/ nin \in {PyNone, PyStr(<<>>)} /\ intended = PyNone
    /\ nout = Pending
    /\ IdleScan /\ IdlePost

NormCall ==
    /\ nout = Pending
    /\ nout' = str_to_float(nin)
    /\ UNCHANGED <<nin, intended, stext, slabel, sout, parsed, result, pc>>

NextNorm == NormCall

SpecNorm == InitNorm /\ [][NextNorm]_vars

-----------------------------------------------------------------------------
(* Harness for find_amount_after_label with one literal label: the label,  *)
(* a run of filler around the 50-character limit, then every short body    *)
(* over a small alphabet, and the amounts of the documentation.            *)

MaxBody == 3

ScanLabel == <<"L">>
ScanAlphabet == {"l", "1", ",", " ", "-", NL}
PadLens == {0, GapMax - 1, GapMax, GapMax + 1}

ExampleBodies ==
    { <<":", " ", "9", "9", "9", "9", ",", "9", "9">>,
      <<" ", ".", ".", ".", ".", " ", "1", "2", " ", "3", "4", "5", ",", "6", "7", " ", "E", "U", "R">>,
      <<" ", "1", ".", "2", "3", "4", ".", "5", "6", "7", ",", "8", "9">>,
      <<" ", "1", NBSP, "2", "3", "4", ",", "5", "6">>,
      <<CR, "1">>,
      <<" ", "1", "2", "3", "4">>,
      <<"-", " ", "1", "2", ",", "0", "0">>,
      <<" ", "1", ",", "2", "3", "4", ",", "5", "6", " ", "l", " ", "7">>,
      <<" ", "a", "b", "c">> }

Bodies == UNION {[1..n -> ScanAlphabet] : n \in 0..MaxBody} \cup ExampleBodies

Pad(n) == [i \in 1..n |-> "x"]

InitScan ==
    /\ slabel = ScanLabel
    /\ \E n \in PadLens, body \in Bodies : stext = slabel \o Pad(n) \o body
    /\ sout = Pending
    /\ IdleNorm /\ IdlePost

ScanCall ==
    /\ sout = Pending
    /\ sout' = find_amount_after_label(PyStr(stext), <<Lits(slabel)>>)
    /\ UNCHANGED <<nin, intended, nout, stext, slabel, parsed, result, pc>>

NextScan == ScanCall

SpecScan == InitScan /\ [][NextScan]_vars

-----------------------------------------------------------------------------
(* The amount grammar and the match condition, stated on their own *)

\* s is one to three digits, then groups of a separator and three digits,
\* then optionally a period or comma and two digits
InGrammar(s) ==
    \E n \in 1..LeadMax, d \in {0, 3} :
        LET g == Len(s) - n - d IN
        /\ g >= 0 /\ g % 4 = 0
        /\ \A i \in 1..n : s[i] \in Digits
        /\ \A i \in 1..g :
              IF i % 4 = 1 THEN s[n + i] \in GroupSeps ELSE s[n + i] \in Digits
        /\ d = 3 => /\ s[n + g + 1] \in DecimalSeps
                    /\ s[n + g + 2] \in Digits /\ s[n + g + 3] \in Digits

\* label (in any case) at position i
LabelAt(text, label, i) ==
    /\ i >= 1 /\ i + Len(label) - 1 <= Len(text)
    /\ \A j \in 1..Len(label) : LowerChar(text[i + j - 1]) = LowerChar(label[j])

\* an occurrence of label at i, then g <= 50 characters outside `excluded',
\* then a quantity (which begins with a digit)
OccurrenceAt(text, label, i, g, excluded) ==
    LET p == i + Len(label) + g IN
    /\ LabelAt(text, label, i)
    /\ g <= GapMax
    /\ p <= Len(text)
    /\ text[p] \in Digits
    /\ \A j \in (i + Len(label))..(p - 1) : text[j] \notin excluded
    /\ \E e \in p..Len(text) : InGrammar(SubSeq(text, p, e))

Occurrences(text, label, excluded) ==
    {<<i, g>> \in {j \in 1..Len(text) : LabelAt(text, label, j)} \X (0..Len(text)) :
        OccurrenceAt(text, label, i, g, excluded)}

\* the longest quantity at the leftmost occurrence
FirstQuantity(text, label, excluded) ==
    LET occ == Occurrences(text, label, excluded)
        o == CHOOSE x \in occ : \A y \in occ : x[1] <= y[1]
        p == o[1] + Len(label) + o[2]
        ends == {e \in p..Len(text) : InGrammar(SubSeq(text, p, e))}
        last == CHOOSE e \in ends : \A f \in ends : f <= e
    IN  SubSeq(text, p, last)

ScanDone == sout # Pending
ScanValue == sout # Pending /\ sout.t = "float"

-----------------------------------------------------------------------------
(* Python values: dictionaries, str(), json.dumps *)

PyBytes(s) == [t |-> "bytes", s |-> s]

KeyRawText == <<"r", "a", "w", "_", "t", "e", "x", "t">>
KeyText == <<"t", "e", "x", "t">>
KeyRaw == <<"r", "a", "w">>
KeyMontant == <<"m", "o", "n", "t", "a", "n", "t", "_", "i", "m", "p", "o", "s", "a", "b", "l", "e">>
KeyCumul == <<"c", "u", "m", "u", "l", "_", "i", "m", "p", "o", "s", "a", "b", "l", "e">>
KeyFrais == <<"f", "r", "a", "i", "s", "_", "e", "m", "p", "l", "o", "i">>
KeyDecouchers == <<"d", "e", "c", "o", "u", "c", "h", "e", "r", "s", "_", "f", "p", "r", "o">>
KeyLines == <<"l", "i", "n", "e", "s">>
KeyItems == <<"i", "t", "e", "m", "s">>
KeyRows == <<"r", "o", "w", "s">>

\* k in d
HasKey(d, k) == \E i \in 1..Len(d.items) : d.items[i][1] = PyStr(k)

\* d.get(k, default)
GetOr(d, k, default) ==
    IF HasKey(d, k)
    THEN d.items[CHOOSE i \in 1..Len(d.items) : d.items[i][1] = PyStr(k)][2]
    ELSE default

\* d.get(k)
Get(d, k) == GetOr(d, k, PyNone)

\* a or b
PyOr(a, b) == IF PyTruthy(a) THEN a ELSE b

\* str(n) for an integer
IntToStr(n) ==
    IF n = 0 THEN <<"0">>
    ELSE IF n < 0 THEN <<"-">> \o IntToDigits(-n)
    ELSE IntToDigits(n)

\* str(v) for the values that are not mappings
StrOf(v) ==
    CASE v.t = "str" -> v.s
      [] v.t = "none" -> <<"N", "o", "n", "e">>
      [] v.t = "int" -> IntToStr(v.n)
      [] v.t = "bytes" -> <<"b", "'">> \o v.s \o <<"'">>

\* json.dumps escapes (ensure_ascii)
JsonEscape(c) ==
    CASE c = DQ -> <<BSL, DQ>>
      [] c = BSL -> <<BSL, BSL>>
      [] c = NL -> <<BSL, "n">>
      [] c = CR -> <<BSL, "r">>
      [] c = "\t" -> <<BSL, "t">>
      [] c = NBSP -> <<BSL, "u", "0", "0", "a", "0">>
      [] c = EACUTE -> <<BSL, "u", "0", "0", "e", "9">>
      [] c = EACUTE_UP -> <<BSL, "u", "0", "0", "c", "9">>
      [] OTHER -> <<c>>

JsonString(s) == <<DQ>> \o Concat([i \in 1..Len(s) |-> JsonEscape(s[i])]) \o <<DQ>>

\* json.dumps raises TypeError on a value it cannot serialise
RECURSIVE JsonSerialisable(_)
JsonSerialisable(v) ==
    CASE v.t \in {"none", "str", "int"} -> TRUE
      [] v.t = "dict" ->
            \A i \in 1..Len(v.items) :
                /\ v.items[i][1].t \in {"none", "str", "int"}
                /\ JsonSerialisable(v.items[i][2])
      [] OTHER -> FALSE

RECURSIVE JsonJoin(_)
JsonJoin(parts) ==
    IF parts = <<>> THEN <<>>
    ELSE IF Len(parts) = 1 THEN parts[1]
    ELSE parts[1] \o <<",", " ">> \o JsonJoin(Tail(parts))

\* json.dumps(v)
RECURSIVE JsonDumps(_)
JsonDumps(v) ==
    CASE v.t = "none" -> <<"n", "u", "l", "l">>
      [] v.t = "str" -> JsonString(v.s)
      [] v.t = "int" -> IntToStr(v.n)
      [] v.t = "dict" ->
            <<"{">>
            \o JsonJoin([i \in 1..Len(v.items) |->
                   (IF v.items[i][1].t = "str" THEN JsonString(v.items[i][1].s)
                    ELSE JsonString(JsonDumps(v.items[i][1])))
                   \o <<":", " ">> \o JsonDumps(v.items[i][2])])
            \o <<"}">>

-----------------------------------------------------------------------------
(* postprocess *)

frais_labels ==
    << <<"I", "N", "D", ".", "R", "E", "P", "A", "S">>, <<"I", "N", "D", "E", "M", "N", "I", "T", "E", " ", "R", "E", "P", "A", "S">>, <<"I", "R", ".", "F", "I", "N", " ", "A", "N", "N", "E", "E", " ", "D", "O", "U", "B", "L">>,
       <<"I", "N", "D", ".", " ", "T", "R", "A", "N", "S", "P", "O", "R", "T">>, <<"I", "N", "D", ".", " ", "T", "R", "A", "N", "S", "P", "O", "R", "T", " ", "E", "X", "O">>, <<"F", "R", "A", "I", "S", " ", "R", "E", "E", "L", "S", " ", "T", "R", "A", "N", "S", "P">>,
       <<"R", ".", " ", "F", "R", "A", "I", "S", " ", "D", "E", " ", "T", "R", "A", "N", "S", "P", "O", "R", "T">>, <<"I", "R", " ", "E", "X", "O", "N", "E", "R", "E", "E", "S">>, <<"I", "R", " ", "N", "O", "N", " ", "E", "X", "O", "N", "E", "R", "E", "E", "S">> >>

\* a label used as a regular expression: "." matches any character
LabelRegex(lab) == [i \in 1..Len(lab) |-> IF lab[i] = "." THEN AnyChar ELSE Lit(lab[i])]

\* lab.replace(".", r"\."): every character literal
LabelEscaped(lab) == Lits(lab)

FraisPatterns == [i \in 1..Len(frais_labels) |->
                    <<LabelRegex(frais_labels[i]), LabelEscaped(frais_labels[i])>>]

\* Montant\s+imposable   and   Montant\s+imposable\s*[:\-]
MontantBase == Lits(<<"M", "o", "n", "t", "a", "n", "t">>) \o <<Plus(SpaceClass)>> \o Lits(<<"i", "m", "p", "o", "s", "a", "b", "l", "e">>)
MontantPatterns ==
    <<MontantBase, MontantBase \o <<Star(SpaceClass), InSet({":", "-"})>> >>

\* Cumul\s+imposable   and   Cumul\s+imposable\s*[:\-]
CumulBase == Lits(<<"C", "u", "m", "u", "l">>) \o <<Plus(SpaceClass)>> \o Lits(<<"i", "m", "p", "o", "s", "a", "b", "l", "e">>)
CumulPatterns ==
    <<CumulBase, CumulBase \o <<Star(SpaceClass), InSet({":", "-"})>> >>

\* I\.?DECOUCHERS\s*F\.?PRO,  DECOUCHERS F\.?PRO,  Découchers F PRO
DecouchersPatterns ==
    << <<Lit("I"), Opt(Lit("."))>> \o Lits(<<"D", "E", "C", "O", "U", "C", "H", "E", "R", "S">>) \o <<Star(SpaceClass)>>
          \o <<Lit("F"), Opt(Lit("."))>> \o Lits(<<"P", "R", "O">>),
       Lits(<<"D", "E", "C", "O", "U", "C", "H", "E", "R", "S", " ", "F">>) \o <<Opt(Lit("."))>> \o Lits(<<"P", "R", "O">>),
       Lits(<<"D", EACUTE, "c", "o", "u", "c", "h", "e", "r", "s", " ", "F", " ", "P", "R", "O">>) >>

DefaultResult ==
    [ montant_imposable |-> PyNone,
      cumul_imposable |-> PyNone,
      frais_emploi |-> PyFloatV(Zero),
      decouchers_fpro |-> PyNone,
      raw_text |-> PyStr(<<>>) ]

\* the raw-text selection without the json.dumps fallback
SelectedRawTextNoDump(d) ==
    IF HasKey(d, KeyRawText) THEN PyOr(Get(d, KeyRawText), PyStr(<<>>))
    ELSE PyOr(PyOr(GetOr(d, KeyText, PyStr(<<>>)), GetOr(d, KeyRaw, PyStr(<<>>))),
              PyStr(<<>>))

\* lines 100-104: the raw text of a mapping, or Raises when json.dumps does
SelectedRawText(d) ==
    IF HasKey(d, KeyRawText) THEN PyOr(Get(d, KeyRawText), PyStr(<<>>))
    ELSE LET t == PyOr(GetOr(d, KeyText, PyStr(<<>>)), GetOr(d, KeyRaw, PyStr(<<>>))) IN
         IF PyTruthy(t) THEN t
         ELSE IF JsonSerialisable(d) THEN PyStr(JsonDumps(d))
         ELSE Raises

SelectRawText ==
    /\ pc = "start"
    /\ IF parsed.t = "dict"
       THEN LET r == SelectedRawText(parsed) IN
            IF r = Raises THEN pc' = "raised" /\ UNCHANGED result
            ELSE pc' = "direct" /\ result' = [result EXCEPT !.raw_text = r]
       ELSE pc' = "text" /\ result' = [result EXCEPT !.raw_text = PyStr(StrOf(parsed))]
    /\ UNCHANGED <<nin, intended, nout, stext, slabel, sout, parsed>>

\* parsed[k] not in (None, "")
NonEmpty(v) == v # PyNone /\ v # PyStr(<<>>)

\* float(str(v).replace(" ", "").replace(",", "."))
DirectFloat(v) == FloatOfStr(Replace(Replace(StrOf(v), " ", <<>>), ",", <<".">>))

\* lines 107-112 for one key: the field's value after the direct read
DirectValue(d, k, old) ==
    IF HasKey(d, k) /\ NonEmpty(Get(d, k))
    THEN LET f == DirectFloat(Get(d, k)) IN IF f = Unparseable THEN old ELSE f
    ELSE old

DirectKeys ==
    /\ pc = "direct"
    /\ result' = [result EXCEPT
          !.montant_imposable = DirectValue(parsed, KeyMontant, @),
          !.cumul_imposable = DirectValue(parsed, KeyCumul, @),
          !.frais_emploi = DirectValue(parsed, KeyFrais, @),
          !.decouchers_fpro = DirectValue(parsed, KeyDecouchers, @)]
    /\ pc' = "lines"
    /\ UNCHANGED <<nin, intended, nout, stext, slabel, sout, parsed>>

\* line 115
LinesOf(d) == PyOr(PyOr(PyOr(Get(d, KeyLines), Get(d, KeyItems)), Get(d, KeyRows)), PyNone)

\* line 124: the catalogued labels the key contains
MatchingLabels(key) ==
    {i \in 1..Len(frais_labels) : Contains(Lower(key), Lower(frais_labels[i]))}

\* line 127
IsDecouchersKey(key) ==
    Contains(Upper(key), <<"D", "E", "C", "O", "U", "C", "H">>) /\ Contains(Upper(key), <<"F", ".", "P", "R", "O">>)

\* lines 122-129 raise on an item whose value is kept and whose key is not a
\* string (key.lower()), or whose value reaches str_to_float without being one
ItemRaises(key, val) ==
    /\ PyTruthy(val)
    /\ \/ key.t # "str"
       \/ /\ MatchingLabels(key.s) # {} \/ IsDecouchersKey(key.s)
          /\ str_to_float(val) = Raises

\* lines 123-126: the labels from the i-th on, for one item
RECURSIVE LabelLoop(_, _, _, _)
LabelLoop(frais, key, val, i) ==
    IF i > Len(frais_labels) THEN frais
    ELSE LabelLoop(
            IF /\ Contains(Lower(key), Lower(frais_labels[i]))
               /\ PyTruthy(str_to_float(val))
            THEN PyFloatV(Add(frais.x, str_to_float(val).x))
            ELSE frais,
            key, val, i + 1)

ItemFrais(frais, key, val) ==
    IF PyTruthy(val) THEN LabelLoop(frais, key.s, val, 1) ELSE frais

\* lines 127-129 for one item
ItemDecouchers(dec, key, val) ==
    IF PyTruthy(val) /\ IsDecouchersKey(key.s) /\ PyTruthy(str_to_float(val))
    THEN str_to_float(val)
    ELSE dec

\* lines 121-129: the record after the items from the i-th on
RECURSIVE LinesLoop(_, _, _)
LinesLoop(res, items, i) ==
    IF i > Len(items) THEN res
    ELSE LinesLoop([res EXCEPT
                      !.frais_emploi = ItemFrais(@, items[i][1], items[i][2]),
                      !.decouchers_fpro = ItemDecouchers(@, items[i][1], items[i][2])],
                   items, i + 1)

LineItems ==
    /\ pc = "lines"
    /\ LET lines == LinesOf(parsed) IN
       IF lines.t # "dict" THEN pc' = "text" /\ UNCHANGED result
       ELSE IF \E i \in 1..Len(lines.items) : ItemRaises(lines.items[i][1], lines.items[i][2])
       THEN pc' = "raised" /\ UNCHANGED result
       ELSE pc' = "text" /\ result' = LinesLoop(result, lines.items, 1)
    /\ UNCHANGED <<nin, intended, nout, stext, slabel, sout, parsed>>

\* line 136
RawOf(res) == PyOr(res.raw_text, PyStr(<<>>))

\* the field scan accepting any amount found, zero included ("is not None")
ScanFieldNotNone(old, raw, patterns) ==
    IF PyTruthy(old) THEN old
    ELSE LET m == find_amount_after_label(raw, patterns) IN
         IF m = Raises THEN Raises
         ELSE IF m # PyNone THEN m ELSE old

\* lines 137-139, 140-142, 159-162 for one field: the field afterwards, or Raises
ScanField(old, raw, patterns) ==
    IF PyTruthy(old) THEN old
    ELSE LET m == find_amount_after_label(raw, patterns) IN
         IF m = Raises THEN Raises
         ELSE IF PyTruthy(m) THEN m ELSE old

\* lines 136-142
TextFallback ==
    /\ pc = "text"
    /\ LET raw == RawOf(result)
           m == ScanField(result.montant_imposable, raw, MontantPatterns)
           c == ScanField(result.cumul_imposable, raw, CumulPatterns)
       IN  IF m = Raises \/ c = Raises THEN pc' = "raised" /\ UNCHANGED result
           ELSE /\ pc' = "frais"
                /\ result' = [result EXCEPT !.montant_imposable = m, !.cumul_imposable = c]
    /\ UNCHANGED <<nin, intended, nout, stext, slabel, sout, parsed>>

\* lines 149-155: <<s, found_any>> after the labels from the i-th on
RECURSIVE SumLabels(_, _, _, _)
SumLabels(raw, i, s, found) ==
    IF i > Len(FraisPatterns) THEN <<s, found>>
    ELSE LET v == find_amount_after_label(raw, FraisPatterns[i]) IN
         IF PyTruthy(v) THEN SumLabels(raw, i + 1, Add(s, v.x), TRUE)
         ELSE SumLabels(raw, i + 1, s, found)

\* the text summation applied whatever tiers 2-3 left
FraisAlwaysUnresolved(res) == res.frais_emploi.t = "float"

\* line 145
FraisUnresolved(res) == ~PyTruthy(res.frais_emploi) \/ res.frais_emploi = PyFloatV(Zero)

\* lines 144-157
FraisFallback ==
    /\ pc = "frais"
    /\ LET raw == RawOf(result) IN
       IF ~FraisUnresolved(result) THEN pc' = "decouchers" /\ UNCHANGED result
       ELSE IF PyTruthy(raw) /\ raw.t # "str" THEN pc' = "raised" /\ UNCHANGED result
       ELSE LET sf == SumLabels(raw, 1, Zero, FALSE) IN
            /\ pc' = "decouchers"
            /\ result' = IF sf[2] THEN [result EXCEPT !.frais_emploi = PyFloatV(Round2(sf[1]))]
                         ELSE result
    /\ UNCHANGED <<nin, intended, nout, stext, slabel, sout, parsed>>

\* lines 159-162
DecouchersFallback ==
    /\ pc = "decouchers"
    /\ LET d == ScanField(result.decouchers_fpro, RawOf(result), DecouchersPatterns) IN
       IF d = Raises THEN pc' = "raised" /\ UNCHANGED result
       ELSE pc' = "cleanup" /\ result' = [result EXCEPT !.decouchers_fpro = d]
    /\ UNCHANGED <<nin, intended, nout, stext, slabel, sout, parsed>>

\* lines 165-167 for one field
Cleaned(v) == IF v.t = "str" THEN str_to_float(v) ELSE v

\* lines 164-170
Finalize ==
    /\ pc = "cleanup"
    /\ result' = [result EXCEPT
          !.montant_imposable = Cleaned(@),
          !.cumul_imposable = Cleaned(@),
          !.decouchers_fpro = Cleaned(@),
          !.frais_emploi = PyOr(@, PyFloatV(Zero))]
    /\ pc' = "done"
    /\ UNCHANGED <<nin, intended, nout, stext, slabel, sout, parsed>>

-----------------------------------------------------------------------------
(* The documents postprocess is run on *)

MaxItems == 2

TextLabels ==
    { <<"M", "o", "n", "t", "a", "n", "t", " ", "i", "m", "p", "o", "s", "a", "b", "l", "e">>, <<"C", "u", "m", "u", "l", " ", "i", "m", "p", "o", "s", "a", "b", "l", "e">>, <<"I", "N", "D", ".", "R", "E", "P", "A", "S">>,
      <<"I", "N", "D", ".", " ", "T", "R", "A", "N", "S", "P", "O", "R", "T", " ", "E", "X", "O">>, <<"I", ".", "D", "E", "C", "O", "U", "C", "H", "E", "R", "S", " ", "F", ".", "P", "R", "O">> }
TextGaps == { <<" ">>, <<":", " ">>, <<" ", "-", " ">> }
TextAmounts == { <<"0", ",", "0", "0">>, <<"1", "2", ",", "0", "0">>, <<"9", "9", "9", "9", ",", "9", "9">> }

Segments == {l \o g \o a : l \in TextLabels, g \in TextGaps, a \in TextAmounts}

ExampleTexts ==
    { <<".", ".", ".", " ", "C", "u", "m", "u", "l", " ", "i", "m", "p", "o", "s", "a", "b", "l", "e", " ", ".", ".", ".", ".", " ", "1", "2", " ", "3", "4", "5", ",", "6", "7", " ", "E", "U", "R", " ", ".", ".", ".">>,
      <<"M", "O", "N", "T", "A", "N", "T", NL, "I", "M", "P", "O", "S", "A", "B", "L", "E", " ", "1", NBSP, "2", "3", "4", ",", "5", "6">>,
      <<"M", "o", "n", "t", "a", "n", "t", " ", "i", "m", "p", "o", "s", "a", "b", "l", "e", NL, "1", "2", ",", "0", "0">>,
      <<"M", "o", "n", "t", "a", "n", "t", " ", "i", "m", "p", "o", "s", "a", "b", "l", "e", " ", "1", ".", "2", "3", "4", ".", "5", "6", "7", ",", "8", "9">>,
      <<"I", "N", "D", ".", "R", "E", "P", "A", "S", " ", "1", ",", "0", "0", " ", "I", "N", "D", "E", "M", "N", "I", "T", "E", " ", "R", "E", "P", "A", "S", " ", "2", ",", "0", "0">>,
      <<"i", "n", "d", "e", "m", "n", "i", "t", "e", " ", "r", "e", "p", "a", "s", " ", "3", ",", "0", "0", " ", "D", EACUTE, "c", "o", "u", "c", "h", "e", "r", "s", " ", "F", " ", "P", "R", "O", " ", "4", ",", "0", "0">>,
      <<"M", "o", "n", "t", "a", "n", "t", " ", "i", "m", "p", "o", "s", "a", "b", "l", "e", ":", " ", "n", "/", "a">> }

RawTexts == {<<>>} \cup Segments \cup ExampleTexts

Field(k, v) == << <<PyStr(k), v>> >>

TextFields ==
    {<<>>}
    \cup {Field(KeyRawText, PyStr(t)) : t \in RawTexts}
    \cup {Field(KeyRawText, v) : v \in {PyNone, PyInt(0), PyInt(123)}}
    \cup {Field(KeyText, v) : v \in {PyStr(<<"C", "u", "m", "u", "l", " ", "i", "m", "p", "o", "s", "a", "b", "l", "e", " ", "1", "2", ",", "0", "0">>), PyStr(<<>>), PyInt(5)}}
    \cup {Field(KeyRaw, v) : v \in {PyStr(<<"I", "N", "D", ".", "R", "E", "P", "A", "S", " ", "1", "2", ",", "0", "0">>)}}

LineTexts ==
    {<<>>}
    \cup {Field(KeyRawText, PyStr(t)) :
            t \in {<<>>, <<"I", "N", "D", ".", "R", "E", "P", "A", "S", " ", "1", "0", ",", "0", "0">>, <<"i", "n", "d", ".", " ", "t", "r", "a", "n", "s", "p", "o", "r", "t", " ", "0", ",", "0", "0">>,
                   <<"I", ".", "D", "E", "C", "O", "U", "C", "H", "E", "R", "S", " ", "F", ".", "P", "R", "O", ":", " ", "1", "2", ",", "0", "0">>, <<"D", "E", "C", "O", "U", "C", "H", "E", "R", "S", " ", "F", ".", "P", "R", "O", " ", "0", ",", "0", "0">>}}
    \cup {Field(KeyRawText, PyInt(123))}

TargetKeys == {KeyMontant, KeyCumul, KeyFrais, KeyDecouchers}

DirectVals ==
    { PyStr(<<"5", "0", "0", "0", ",", "0", "0">>), PyStr(<<"0">>), PyStr(<<"0", ",", "0", "0">>), PyStr(<<" ", "1", " ", "2", "3", "4", ",", "5">>),
      PyStr(<<"a", "b", "c">>), PyStr(<<"-", "5">>), PyStr(<<"n", "a", "n">>), PyStr(<<>>),
      PyNone, PyInt(0), PyInt(7), PyBytes(<<"5">>) }

DirectFields == {<<>>} \cup {Field(k, v) : k \in TargetKeys, v \in DirectVals}

LineDirects ==
    {<<>>}
    \cup {Field(k, PyStr(v)) : k \in {KeyFrais, KeyDecouchers}, v \in {<<"1", "0", "0">>, <<"0">>, <<"a", "b", "c">>}}
    \cup {Field(KeyMontant, PyStr(<<"1", "0", "0">>))}

LineKeys == << <<"I", "N", "D", ".", "R", "E", "P", "A", "S">>, <<"i", "n", "d", ".", " ", "t", "r", "a", "n", "s", "p", "o", "r", "t", " ", "e", "x", "o">>, <<"I", ".", "D", "E", "C", "O", "U", "C", "H", "E", "R", "S", " ", "F", ".", "P", "R", "O">>, <<"U", "N", "R", "E", "L", "A", "T", "E", "D">> >>
LineVals == { PyStr(<<"1", "0", ",", "0", "0">>), PyStr(<<"5", ",", "5", "0">>), PyStr(<<"0", ",", "0", "0">>), PyStr(<<>>) }

Absent == [t |-> "absent"]

\* the items a choice keeps, in the order of LineKeys
RECURSIVE ChosenItems(_, _)
ChosenItems(f, i) ==
    IF i > Len(LineKeys) THEN <<>>
    ELSE (IF f[i] = Absent THEN <<>> ELSE << <<PyStr(LineKeys[i]), f[i]>> >>)
         \o ChosenItems(f, i + 1)

LineItemSeqs ==
    {ChosenItems(f, 1) :
        f \in {g \in [1..Len(LineKeys) -> LineVals \cup {Absent}] :
                 Cardinality({i \in 1..Len(LineKeys) : g[i] # Absent}) <= MaxItems}}

LineFields ==
    {<<>>}
    \cup {Field(KeyLines, PyDict(items)) : items \in LineItemSeqs}
    \cup {Field(KeyItems, PyDict(Field(<<"I", "n", "d", "e", "m", "n", "i", "t", "e", " ", "r", "e", "p", "a", "s">>, PyStr(<<"1", "0", ",", "0", "0">>)))),
          Field(KeyRows, PyDict(Field(<<"I", "R", " ", "E", "X", "O", "N", "E", "R", "E", "E", "S">>, PyStr(<<"5", ",", "5", "0">>)))),
          Field(KeyLines, PyStr(<<"I", "N", "D", ".", "R", "E", "P", "A", "S", " ", "1", "0", ",", "0", "0">>))}

ExampleDocs ==
    { PyDict(Field(KeyLines,
         PyDict(Field(<<"I", "N", "D", ".", "R", "E", "P", "A", "S">>, PyStr(<<"1", "0", ",", "0", "0">>))
                \o Field(<<"I", "N", "D", ".", " ", "T", "R", "A", "N", "S", "P", "O", "R", "T">>, PyStr(<<"5", ",", "5", "0">>))
                \o Field(<<"U", "N", "R", "E", "L", "A", "T", "E", "D">>, PyStr(<<"9", "9", "9">>))))),
      PyDict(Field(KeyLines,
         PyDict(Field(<<"I", "N", "D", ".", "R", "E", "P", "A", "S">>, PyStr(<<>>)) \o Field(<<"U", "N", "R", "E", "L", "A", "T", "E", "D">>, PyStr(<<"9", "9", "9">>))))),
      PyDict(Field(KeyLines, PyDict(<< <<PyInt(1), PyStr(<<"5">>)>> >>))),
      PyDict(Field(KeyLines, PyDict(<< <<PyInt(1), PyStr(<<>>)>> >>))),
      PyDict(Field(KeyLines, PyDict(Field(<<"I", "N", "D", ".", "R", "E", "P", "A", "S">>, PyInt(5))))),
      PyDict(Field(KeyLines, PyDict(Field(<<"U", "N", "R", "E", "L", "A", "T", "E", "D">>, PyInt(5))))),
      PyDict(Field(KeyLines, PyDict(<<>>))
             \o Field(KeyItems, PyDict(Field(<<"I", "N", "D", ".", "R", "E", "P", "A", "S">>, PyStr(<<"1", "0", ",", "0", "0">>))))),
      PyDict(Field(<<"b", "l", "o", "b">>, PyBytes(<<"x">>))),
      PyDict(Field(KeyMontant, PyStr(<<"5", "0", "0", "0", ",", "0", "0">>)) \o Field(KeyCumul, PyStr(<<"7">>))
             \o Field(KeyFrais, PyStr(<<"1">>)) \o Field(KeyDecouchers, PyStr(<<"2">>))
             \o Field(KeyRawText, PyInt(123))) }

NonDicts ==
    {PyStr(t) : t \in RawTexts} \cup {PyNone, PyInt(0), PyInt(42), PyBytes(<<"x">>)}

\* a mapping carries its text field, its direct key and its line items in this
\* order, and at most two of the three
Docs ==
    NonDicts
    \cup {PyDict(t \o d) : t \in TextFields, d \in DirectFields}
    \cup {PyDict(d \o l) : d \in LineDirects, l \in LineFields}
    \cup {PyDict(t \o l) : t \in LineTexts, l \in LineFields}
    \cup ExampleDocs

Init ==
    /\ parsed \in Docs
    /\ result = DefaultResult
    /\ pc = "start"
    /\ IdleNorm /\ IdleScan

Next ==
    \/ SelectRawText
    \/ DirectKeys
    \/ LineItems
    \/ TextFallback
    \/ FraisFallback
    \/ DecouchersFallback
    \/ Finalize

Spec == Init /\ [][Next]_vars

-----------------------------------------------------------------------------
(* Claims *)

Done == pc = "done"
IsNumber(v) == v.t = "float"
IsNumberOrNull(v) == v.t \in {"float", "none"}

\* the mapping d carries k with a non-empty value the direct read converts
DirectNumber(d, k) ==
    /\ d.t = "dict" /\ HasKey(d, k) /\ NonEmpty(Get(d, k))
    /\ DirectFloat(Get(d, k)) # Unparseable

NoTargetKeys(d) == d.t # "dict" \/ \A k \in TargetKeys : ~HasKey(d, k)

HasLineItems(d) == d.t = "dict" /\ LinesOf(d).t = "dict"

\* C1: postprocess returns for every input, never raising, and the record it
\* returns has the five keys, frais_emploi a number, raw_text a string and
\* the other three a number or null.
C1_NeverRaises ==
    /\ pc # "raised"
    /\ Done =>
         /\ DOMAIN result = {"montant_imposable", "cumul_imposable", "frais_emploi",
                             "decouchers_fpro", "raw_text"}
         /\ IsNumber(result.frais_emploi)
         /\ result.raw_text.t = "str"
         /\ IsNumberOrNull(result.montant_imposable)
         /\ IsNumberOrNull(result.cumul_imposable)
         /\ IsNumberOrNull(result.decouchers_fpro)

\* C2: a montant_imposable (cumul_imposable) that the direct read converts
\* to a number v is v in the result, whatever the raw text contains.
C2_DirectReadWins ==
    Done =>
      /\ DirectNumber(parsed, KeyMontant) =>
            result.montant_imposable = DirectFloat(Get(parsed, KeyMontant))
      /\ DirectNumber(parsed, KeyCumul) =>
            result.cumul_imposable = DirectFloat(Get(parsed, KeyCumul))

\* C3: str_to_float gives a locale-formatted number the value it was written
\* to mean (space, NBSP or period between thousands, comma or period before
\* the decimals), and gives no value for None and for the empty string.
C3_IntendedValue == nout # Pending => nout = intended

\* the sum of the normalised values of the items whose key contains a
\* catalogued label, each item once
RECURSIVE SumOnce(_, _)
SumOnce(items, i) ==
    IF i > Len(items) THEN Zero
    ELSE LET key == items[i][1]
             fv == str_to_float(items[i][2])
         IN  IF key.t = "str" /\ MatchingLabels(key.s) # {} /\ IsNumber(fv)
             THEN Add(fv.x, SumOnce(items, i + 1))
             ELSE SumOnce(items, i + 1)

\* C4: with line items and no direct frais_emploi key, frais_emploi is the
\* sum over the items whose key contains a catalogued label of the item's
\* normalised value, each item counted once.
C4_LineItemSum ==
    (Done /\ HasLineItems(parsed) /\ ~HasKey(parsed, KeyFrais)) =>
        result.frais_emploi = PyFloatV(SumOnce(LinesOf(parsed).items, 1))

GapExcludedClaimed == Digits \cup {NL, CR}
GapExcluded == Digits \cup {NL, CR, "-"}

\* C5 as claimed: find_amount_after_label returns a value if and only if an
\* occurrence of the label is followed by at most 50 characters, none a
\* digit, newline or carriage return, and then by a quantity.
C5_MatchCondition ==
    ScanDone => (IsNumber(sout) <=> Occurrences(stext, slabel, GapExcludedClaimed) # {})

\* C5 as amended: the gap excludes the hyphen too; with no such occurrence
\* the scanner returns no value, and otherwise it returns what the
\* normaliser makes of the longest quantity at the leftmost occurrence
\* (no value when the normaliser rejects it).
C5_MatchConditionAmended ==
    ScanDone =>
        sout = IF Occurrences(stext, slabel, GapExcluded) # {}
               THEN str_to_float(PyStr(FirstQuantity(stext, slabel, GapExcluded)))
               ELSE PyNone

\* a value returned across a gap of exactly 50 characters
C5_Witness ==
    /\ ScanValue
    /\ \E o \in Occurrences(stext, slabel, GapExcluded) : o[2] = GapMax

SignalFree == {PyDict(<<>>), PyDict(Field(KeyRawText, PyStr(<<>>))), PyStr(<<>>)}

HasMatchingItem(d) ==
    /\ HasLineItems(d)
    /\ \E i \in 1..Len(LinesOf(d).items) :
          /\ LinesOf(d).items[i][1].t = "str"
          /\ MatchingLabels(LinesOf(d).items[i][1].s) # {}

\* C7 as claimed: once a line item matches a catalogued label, the free-text
\* summation leaves frais_emploi as tier 3 set it, even at zero.
C7_TextGatedByMatch ==
    [][(pc = "frais" /\ HasMatchingItem(parsed)) =>
          result'.frais_emploi = result.frais_emploi]_vars

\* C7 as amended: the free-text summation is gated by the value, not by the
\* match: a frais_emploi that tiers 2-3 left nonzero stays as it is to the
\* end, whatever the raw text holds.
C7_TextGatedByZero ==
    [][(pc \in {"text", "frais", "decouchers", "cleanup"}
        /\ result.frais_emploi # PyFloatV(Zero)) =>
          result'.frais_emploi = result.frais_emploi]_vars

\* a matching line item left a nonzero sum and the raw text holds another
C7_Witness ==
    /\ Done /\ HasMatchingItem(parsed)
    /\ result.raw_text.t = "str"
    /\ SumLabels(result.raw_text, 1, Zero, FALSE)[2]
    /\ result.frais_emploi # PyFloatV(Zero)
    /\ result.frais_emploi # PyFloatV(Round2(SumLabels(result.raw_text, 1, Zero, FALSE)[1]))

\* C8: the line-item step changes neither a decouchers_fpro nor a
\* frais_emploi that the direct read resolved.
C8_LinesKeepDirect ==
    [][pc = "lines" =>
          /\ DirectNumber(parsed, KeyDecouchers) =>
                result'.decouchers_fpro = result.decouchers_fpro
          /\ DirectNumber(parsed, KeyFrais) =>
                result'.frais_emploi = result.frais_emploi]_vars

\* C9: the quantity the scanner matched is never cut short: the character
\* after it is not a digit.
C9_NoTruncation ==
    ScanValue => ~IsDigitAt(stext, Search(Lits(slabel), stext)[2] + 1)

NullOrPositive(v) == v = PyNone \/ (IsNumber(v) /\ Positive(v.x))

\* C10: for a document without any of the four target keys, each of
\* montant_imposable, cumul_imposable and decouchers_fpro is null or a
\* strictly positive number in the result.
C10_NullOrPositive ==
    (Done /\ NoTargetKeys(parsed)) =>
        /\ NullOrPositive(result.montant_imposable)
        /\ NullOrPositive(result.cumul_imposable)
        /\ NullOrPositive(result.decouchers_fpro)

\* an amount of zero found after the label, and the field left null
C10_Witness ==
    /\ Done /\ NoTargetKeys(parsed)
    /\ result.raw_text.t = "str"
    /\ find_amount_after_label(result.raw_text, MontantPatterns) = PyFloatV(Zero)
    /\ result.montant_imposable = PyNone

====
